---- MODULE Spec2Model ----
(***************************************************************************)
(* A model of src/src/parseEpub.ts: the Epub document facade, its staged   *)
(* parse(), the link resolver, the two TOC builders, the metadata          *)
(* extractor and the section resolver.                                     *)
(*                                                                         *)
(* JavaScript values are tagged records: undefined, strings, arrays and    *)
(* objects.  A string is a sequence of tokens; the tokens "/" and "#" are   *)
(* the single characters the code splits on, any other token stands for a  *)
(* run of ordinary characters.  The tokens used contain no "%", so         *)
(* decodeURI leaves every path as it is.                                   *)
(***************************************************************************)
EXTENDS Integers, Sequences, FiniteSets, TLC

VARIABLES
  zip,         \* Epub._zip: archive entries, path -> entry data
  _opfPath,    \* Epub._opfPath
  _root,       \* Epub._root
  _content,    \* Epub._content
  _manifest,   \* Epub._manifest
  _spine,      \* Epub._spine
  _toc,        \* Epub._toc
  _metadata,   \* Epub._metadata
  structure,   \* Epub.structure
  info,        \* Epub.info
  sections,    \* Epub.sections
  tocFile,     \* Epub.tocFile
  pc,          \* position of the caller inside parse()
  promise,     \* state of the promise parse() returned
  call         \* the last public call made on the object and what it returned

vars == <<zip, _opfPath, _root, _content, _manifest, _spine, _toc,
          _metadata, structure, info, sections, tocFile, pc, promise, call>>

fields == <<_opfPath, _root, _content, _manifest, _spine, _toc, _metadata,
            structure, info, sections, tocFile>>

-----------------------------------------------------------------------------
(* JavaScript values *)

Undefined == [t |-> "undefined"]
Null == [t |-> "null"]
Str(s) == [t |-> "string", s |-> s]
Num(n) == [t |-> "number", n |-> n]
Arr(a) == [t |-> "array", a |-> a]
Obj(o) == [t |-> "object", o |-> o]
EmptyObj == Obj(<<>>)
Throw(e) == [t |-> "throw", e |-> e]

IsThrow(v) == v.t = "throw"
IsArray(v) == v.t = "array"

\* obj[key]: a property read; undefined for a key the value does not have
Prop(v, key) ==
  IF v.t = "object" /\ key \in DOMAIN v.o THEN v.o[key] ELSE Undefined

\* JavaScript truthiness of the values the code tests
Truthy(v) ==
  CASE v.t = "undefined" -> FALSE
    [] v.t = "string" -> v.s # <<>>
    [] v.t = "number" -> v.n # 0
    [] OTHER -> TRUE

RECURSIVE get(_, _, _)
get(obj, path, defaultValue) ==
  IF path = <<>>
    THEN IF obj = Undefined THEN defaultValue ELSE obj
    ELSE IF obj = Undefined
           THEN defaultValue
           ELSE get(Prop(obj, Head(path)), Tail(path), defaultValue)

\* arr[i], with JavaScript's zero-based index
At(v, i) == IF IsArray(v) /\ i >= 0 /\ i < Len(v.a) THEN v.a[i + 1] ELSE Undefined

\* the text a value contributes to a string concatenation
Text(v) == IF v.t = "string" THEN v.s ELSE <<v.t>>

\* Array.prototype.map (parseEpub.ts lines 181, 194, 238, 287, 322) and
\* Array.prototype.find (lines 156, 323, 363) on a sequence
Map(s, F(_)) == [i \in 1..Len(s) |-> F(s[i])]

Find(s, P(_)) ==
  IF \E i \in 1..Len(s) : P(s[i])
    THEN s[CHOOSE i \in 1..Len(s) : P(s[i]) /\ \A j \in 1..(i - 1) : ~P(s[j])]
    ELSE Undefined

-----------------------------------------------------------------------------
(* Strings as token sequences *)

Slash == "/"
Hash == "#"

HasToken(s, c) == \E i \in 1..Len(s) : s[i] = c
FirstIndex(s, c) == CHOOSE i \in 1..Len(s) : s[i] = c /\ \A j \in 1..(i - 1) : s[j] # c
LastIndex(s, c) == CHOOSE i \in 1..Len(s) : s[i] = c /\ \A j \in (i + 1)..Len(s) : s[j] # c

\* href.split('#'): the part before the first "#", and the part between the
\* first and the second "#" (undefined without a "#")
BeforeHash(s) == IF HasToken(s, Hash) THEN SubSeq(s, 1, FirstIndex(s, Hash) - 1) ELSE s
AfterHash(s) ==
  IF ~HasToken(s, Hash)
    THEN Undefined
    ELSE Str(BeforeHash(SubSeq(s, FirstIndex(s, Hash) + 1, Len(s))))

\* the last "/"-separated segment of a path
BaseName(s) == IF HasToken(s, Slash) THEN SubSeq(s, LastIndex(s, Slash) + 1, Len(s)) ELSE s

\* parseLink(href): the fragment, and the fragment-stripped base name
parseLink(href) == [hash |-> AfterHash(href), name |-> BaseName(BeforeHash(href))]

\* determineRoot(opfPath): the directory part of the path, "" at the archive root
determineRoot(opfPath) ==
  IF HasToken(opfPath, Slash) THEN SubSeq(opfPath, 1, LastIndex(opfPath, Slash)) ELSE <<>>

-----------------------------------------------------------------------------
(* Archive Accessor *)

\* this._root + path, with the text JavaScript gives an unset root
RootText == IF _root = Undefined THEN <<"undefined">> ELSE _root.s

\* Epub.resolve(path): the archive entry, or the thrown "not found" error
resolve(path) ==
  LET _path == IF path # <<>> /\ Head(path) = Slash THEN Tail(path) ELSE RootText \o path
  IN  IF _path \in DOMAIN zip THEN zip[_path] ELSE Throw("NotFound")

\* Epub._resolveXMLAsJsObject(path): xmlToJson of the entry's text
_resolveXMLAsJsObject(path) ==
  LET entry == resolve(path) IN IF IsThrow(entry) THEN entry ELSE entry.xml

\* v[key] where reading a property of undefined throws
Member(v, key) ==
  CASE IsThrow(v) -> v
    [] v = Undefined -> Throw("TypeError")
    [] OTHER -> Prop(v, key)

ContainerPath == <<Slash, "META-INF", Slash, "container.xml">>

\* Epub._getOpfPath()
_getOpfPath ==
  Member(Member(Member(Member(_resolveXMLAsJsObject(ContainerPath),
    "container"), "rootfiles"), "rootfile"), "@full-path")

\* '/' + this._opfPath
SlashOpfPath == <<Slash>> \o (IF _opfPath = Undefined THEN <<"undefined">> ELSE _opfPath.s)

-----------------------------------------------------------------------------
(* Link Resolver *)

\* a resolver that compares the whole hrefs, fragment and directory included
_resolveIdFromLinkWholeHref(href) ==
  LET Matches(item) == item.href.s = href
      tarItem == IF _manifest = Undefined THEN Undefined ELSE Find(_manifest.a, Matches)
  IN  IF tarItem = Undefined THEN Str(<<>>) ELSE tarItem.id

\* a resolver that returns the last matching item, not the first
_resolveIdFromLinkLast(href) ==
  LET tarName == parseLink(href).name
      Matches(item) == parseLink(item.href.s).name = tarName
      hits == IF _manifest = Undefined THEN <<>> ELSE SelectSeq(_manifest.a, Matches)
  IN  IF hits = <<>> THEN Str(<<>>) ELSE hits[Len(hits)].id

\* Epub._resolveIdFromLink(href)
_resolveIdFromLink(href) ==
  LET tarName == parseLink(href).name
      Matches(item) == parseLink(item.href.s).name = tarName
      tarItem == IF _manifest = Undefined THEN Undefined ELSE Find(_manifest.a, Matches)
  IN  IF tarItem = Undefined THEN Str(<<>>) ELSE tarItem.id

\* Epub.getItemId(href)
getItemId(href) == _resolveIdFromLink(href)

-----------------------------------------------------------------------------
(* Package Document Parser *)

\* the mapper of getManifest
ManifestEntry(item) == [href |-> Prop(item, "@href"), id |-> Prop(item, "@id")]

\* Epub.getManifest(content): .map is called on whatever the item path holds
getManifest(content) ==
  IF _manifest # Undefined
    THEN _manifest
    ELSE LET items == get(content, <<"package", "manifest", "item">>, Arr(<<>>))
         IN  IF IsArray(items) THEN Arr(Map(items.a, ManifestEntry)) ELSE Throw("TypeError")

\* A Record<string, number> keeps its keys in insertion order
EmptySpine == [t |-> "spine", keys |-> <<>>, idx |-> <<>>]
SpineKeys(spine) == {spine.keys[i] : i \in 1..Len(spine.keys)}

\* spine[key] = i
SpineSet(spine, key, i) ==
  IF key \in SpineKeys(spine)
    THEN [spine EXCEPT !.idx = [k \in SpineKeys(spine) |-> IF k = key THEN i ELSE spine.idx[k]]]
    ELSE [t |-> "spine", keys |-> Append(spine.keys, key),
          idx |-> [k \in SpineKeys(spine) \cup {key} |->
                     IF k = key THEN i ELSE spine.idx[k]]]

\* String(item['@idref']) as a property key
IdrefKey(item) ==
  LET idref == Prop(item, "@idref") IN IF idref = Undefined THEN <<"undefined">> ELSE idref.s

\* a getSpine that numbers the item references from one
RECURSIVE SpineFromOne(_, _, _)
SpineFromOne(itemRefs, i, spine) ==
  IF i > Len(itemRefs)
    THEN spine
    ELSE SpineFromOne(itemRefs, i + 1, SpineSet(spine, IdrefKey(itemRefs[i]), i))

RECURSIVE SpineFrom(_, _, _)
SpineFrom(itemRefs, i, spine) ==
  IF i > Len(itemRefs)
    THEN spine
    ELSE SpineFrom(itemRefs, i + 1, SpineSet(spine, IdrefKey(itemRefs[i]), i - 1))

\* Epub.getSpine(); its getManifest() call returns this._manifest or [] and is dropped
getSpine ==
  LET got == get(_content, <<"package", "spine", "itemref">>, Arr(<<>>))
      itemRefs == IF IsArray(got) THEN got.a ELSE <<got>>
  IN  SpineFrom(itemRefs, 1, EmptySpine)

-----------------------------------------------------------------------------
(* TOC Builder *)

TocNode(name, sectionId, nodeId, path, playOrder, children) ==
  Obj([name |-> name, sectionId |-> sectionId, nodeId |-> nodeId, path |-> path,
       playOrder |-> playOrder, children |-> children])

RECURSIVE JoinText(_)
JoinText(parts) == IF parts = <<>> THEN <<>> ELSE Text(Head(parts)) \o JoinText(Tail(parts))

\* prefix.map(p => p['_']).join('')
PrefixText(prefix) == LET Under(p) == Prop(p, "_") IN JoinText(Map(prefix.a, Under))

\* parseHTMLNavPoints and parseOuterHTML of _genStructureForHTML; the closure's
\* runningIndex is passed in and handed back: [out, runningIndex]
RECURSIVE parseHTMLNavPoints(_, _), parseOuterHTML(_, _)
parseHTMLNavPoints(navPoint, runningIndex) ==
  LET first == At(Prop(navPoint, "a"), 0)
      element == IF Truthy(first) THEN first ELSE EmptyObj
      path == Prop(Prop(element, "$"), "href")
      text == Prop(element, "_")
      prefix == Prop(element, "span")
      name == IF Truthy(prefix) THEN Str(PrefixText(prefix) \o Text(text)) ELSE text
      sectionId == _resolveIdFromLink(path.s)
      nodeId == parseLink(path.s).hash
      playOrder == runningIndex
      li == Prop(At(Prop(navPoint, "ol"), 0), "li")
      sub == IF Truthy(li)
               THEN parseOuterHTML(li.a, runningIndex)
               ELSE [out |-> <<>>, runningIndex |-> runningIndex]
      children == IF Truthy(li) THEN Arr(sub.out) ELSE li
  IN  [out |-> TocNode(name, sectionId, nodeId, path, Num(playOrder), children),
       runningIndex |-> sub.runningIndex + 1]

parseOuterHTML(collection, runningIndex) ==
  IF collection = <<>>
    THEN [out |-> <<>>, runningIndex |-> runningIndex]
    ELSE LET head == parseHTMLNavPoints(Head(collection), runningIndex)
             rest == parseOuterHTML(Tail(collection), head.runningIndex)
         IN  [out |-> <<head.out>> \o rest.out, runningIndex |-> rest.runningIndex]

\* Epub._genStructureForHTML(tocObj)
_genStructureForHTML(tocObj) ==
  LET tocRoot == Prop(At(Prop(At(Prop(At(Prop(Prop(tocObj, "html"), "body"), 0),
                   "nav"), 0), "ol"), 0), "li")
  IN  Arr(parseOuterHTML(tocRoot.a, 1).out)

\* a normalisation that drops a navPoint given bare, not in a list
NavPointListOfArrayOnly(navPoints) == IF IsArray(navPoints) THEN navPoints.a ELSE <<>>

\* Array.isArray(navPoints) ? navPoints : [navPoints]
NavPointList(navPoints) == IF IsArray(navPoints) THEN navPoints.a ELSE <<navPoints>>

\* parseNavPoint and parseNavPoints of _genStructure
RECURSIVE parseNavPoint(_), parseNavPoints(_)
parseNavPoint(navPoint) ==
  LET path == get(navPoint, <<"content", "@src">>, Str(<<>>))
      name == get(navPoint, <<"navLabel", "text">>, Undefined)
      playOrder == get(navPoint, <<"@playOrder">>, Undefined)
      hash == parseLink(path.s).hash
      sub == Prop(navPoint, "navPoint")
      children == IF Truthy(sub) THEN Arr(parseNavPoints(sub)) ELSE sub
      sectionId == _resolveIdFromLink(path.s)
      nodeId == IF Truthy(hash) THEN hash ELSE Prop(navPoint, "@id")
  IN  TocNode(name, sectionId, nodeId, path, playOrder, children)

parseNavPoints(navPoints) ==
  Map(NavPointList(navPoints), parseNavPoint)

\* Epub._genStructure(tocObj)
_genStructure(tocObj) ==
  IF Truthy(Prop(tocObj, "html"))
    THEN _genStructureForHTML(tocObj)
    ELSE Arr(parseNavPoints(get(tocObj, <<"ncx", "navMap", "navPoint">>, Arr(<<>>))))

-----------------------------------------------------------------------------
(* Metadata Extractor *)

MetaItems == <<"title", "author", "description", "language", "publisher", "rights">>

\* the value parseMetadata's forEach assigns to info[item]
MetaValue(meta, item) ==
  CASE item = "author" ->
         LET author == get(meta, <<"dc:creator">>, Arr(<<>>))
             TextOf(a) == Prop(a, "#text")
         IN  IF IsArray(author) THEN Arr(Map(author.a, TextOf)) ELSE Arr(<<TextOf(author)>>)
    [] item = "description" -> get(meta, <<item, "_">>, Undefined)
    [] OTHER -> get(meta, <<"dc:" \o item>>, Undefined)

\* a predicate that keeps every non-empty sequence
PickedNonEmpty(v) == IF IsArray(v) THEN Len(v.a) # 0 ELSE v # Undefined

\* the predicate parseMetadata hands to pickBy
Picked(v) == IF IsArray(v) THEN Len(v.a) # 0 /\ v.a[1] # Undefined ELSE v # Undefined

\* pickBy(obj, predicate) of parseEpub.ts lines 20-31, obj a function from its keys
pickBy(obj, P(_)) == [k \in {key \in DOMAIN obj : P(obj[key])} |-> obj[k]]

\* parseMetadata(metadata)
parseMetadata(metadata) ==
  LET meta == IF metadata = Undefined THEN EmptyObj ELSE metadata
      all == [k \in {MetaItems[i] : i \in 1..Len(MetaItems)} |-> MetaValue(meta, k)]
  IN  Obj(pickBy(all, Picked))

-----------------------------------------------------------------------------
(* Section Resolver *)

\* Keys that are canonical array indices come first in Object.keys, in
\* ascending numeric order; the tokens "1" and "2" are such keys
IndexValue == ("1" :> 1) @@ ("2" :> 2)
IsIndexKey(key) == Len(key) = 1 /\ key[1] \in DOMAIN IndexValue

RECURSIVE SortIndexKeys(_)
SortIndexKeys(keys) ==
  IF keys = {}
    THEN <<>>
    ELSE LET least == CHOOSE k \in keys :
                        \A other \in keys : IndexValue[k[1]] <= IndexValue[other[1]]
         IN  <<least>> \o SortIndexKeys(keys \ {least})

\* Object.keys(spine)
ObjectKeys(spine) ==
  SortIndexKeys({k \in SpineKeys(spine) : IsIndexKey(k)})
    \o SelectSeq(spine.keys, LAMBDA k : ~IsIndexKey(k))

\* the mapper of _resolveSections: the section parseSection builds for one id,
\* or what is thrown on the way to it
ResolveItem(id) ==
  LET HasId(m) == m.id = Str(id)
      item == IF _manifest = Undefined THEN Undefined ELSE Find(_manifest.a, HasId)
  IN  IF item = Undefined \/ item.href = Undefined
        THEN Throw("TypeError")
        ELSE LET entry == resolve(item.href.s)
             IN  IF IsThrow(entry)
                   THEN entry
                   ELSE [t |-> "section", id |-> id, htmlString |-> entry.text]

\* a resolver that leaves out the items it could not resolve
_resolveSectionsSkipMissing(id) ==
  IF _spine = Undefined
    THEN Throw("TypeError")
    ELSE LET list == IF Truthy(id) THEN <<id.s>> ELSE ObjectKeys(_spine)
         IN  Arr(SelectSeq(Map(list, ResolveItem), LAMBDA v : ~IsThrow(v)))

\* Epub._resolveSections(id): the first throw of the map aborts it
_resolveSections(id) ==
  IF _spine = Undefined
    THEN Throw("TypeError")
    ELSE LET list == IF Truthy(id) THEN <<id.s>> ELSE ObjectKeys(_spine)
             out == Map(list, ResolveItem)
         IN  IF \E i \in 1..Len(out) : IsThrow(out[i])
               THEN out[CHOOSE i \in 1..Len(out) :
                          IsThrow(out[i]) /\ \A j \in 1..(i - 1) : ~IsThrow(out[j])]
               ELSE Arr(out)

\* Epub.getSection(id)
getSection(id) ==
  LET sectionIndex == IF _spine = Undefined
                        THEN Num(-1)
                        ELSE IF id \in SpineKeys(_spine)
                               THEN Num(_spine.idx[id])
                               ELSE Undefined
  IN  IF sectionIndex = Undefined
        THEN LET one == _resolveSections(Str(id))
             IN  IF IsThrow(one) THEN one ELSE At(one, 0)
        ELSE IF sections # Undefined /\ sectionIndex.n # -1
               THEN At(sections, sectionIndex.n)
               ELSE Null

-----------------------------------------------------------------------------
(* Document Facade: parse(), one action per stage, and the public lookups *)

NoCall == [op |-> "none", arg |-> Undefined, ret |-> Undefined]

\* a throw inside the async function rejects the promise it returned
Reject ==
  /\ promise' = "rejected"
  /\ pc' = "settled"

\* this._opfPath = this._getOpfPath()
ParseOpfPath ==
  /\ pc = "new"
  /\ promise = "none"
  /\ LET path == _getOpfPath
     IN  IF IsThrow(path)
           THEN Reject /\ UNCHANGED _opfPath
           ELSE /\ _opfPath' = path
                /\ pc' = "content"
                /\ promise' = "pending"
  /\ call' = [op |-> "parse", arg |-> Undefined, ret |-> Undefined]
  /\ UNCHANGED <<zip, _root, _content, _manifest, _spine, _toc, _metadata,
                 structure, info, sections, tocFile>>

\* this._content = this._resolveXMLAsJsObject('/' + this._opfPath)
\* this._root = determineRoot(this._opfPath)
ParseContent ==
  /\ pc = "content"
  /\ LET content == _resolveXMLAsJsObject(SlashOpfPath)
     IN  IF IsThrow(content)
           THEN Reject /\ UNCHANGED <<_content, _root>>
           ELSE /\ _content' = content
                /\ _root' = Str(determineRoot(_opfPath.s))
                /\ pc' = "manifest"
                /\ UNCHANGED promise
  /\ UNCHANGED <<zip, _opfPath, _manifest, _spine, _toc, _metadata, structure,
                 info, sections, tocFile, call>>

\* this._manifest = this.getManifest(this._content)
\* this._metadata = get(this._content, ['package', 'metadata'], {})
ParseManifest ==
  /\ pc = "manifest"
  /\ LET manifest == getManifest(_content)
     IN  IF IsThrow(manifest)
           THEN Reject /\ UNCHANGED <<_manifest, _metadata>>
           ELSE /\ _manifest' = manifest
                /\ _metadata' = get(_content, <<"package", "metadata">>, EmptyObj)
                /\ pc' = "toc"
                /\ UNCHANGED promise
  /\ UNCHANGED <<zip, _opfPath, _root, _content, _spine, _toc, structure, info,
                 sections, tocFile, call>>

\* (this._manifest?.find(m => m.id === 'ncx') || {}).href
NcxHref ==
  LET IsNcx(m) == m.id = Str(<<"ncx">>)
      found == Find(_manifest.a, IsNcx)
  IN  IF found = Undefined THEN Undefined ELSE found.href

\* this.tocFile = ...; if (this.tocFile) { this._toc = ...; this.structure = ... }
ParseToc ==
  /\ pc = "toc"
  /\ tocFile' = NcxHref
  /\ IF Truthy(NcxHref)
       THEN LET toc == _resolveXMLAsJsObject(NcxHref.s)
            IN  IF IsThrow(toc)
                  THEN Reject /\ UNCHANGED <<_toc, structure>>
                  ELSE /\ _toc' = toc
                       /\ structure' = _genStructure(toc)
                       /\ pc' = "spine"
                       /\ UNCHANGED promise
       ELSE /\ pc' = "spine"
            /\ UNCHANGED <<_toc, structure, promise>>
  /\ UNCHANGED <<zip, _opfPath, _root, _content, _manifest, _spine, _metadata,
                 info, sections, call>>

\* this._spine = this.getSpine(); this.info = parseMetadata(this._metadata)
ParseSpine ==
  /\ pc = "spine"
  /\ _spine' = getSpine
  /\ info' = parseMetadata(_metadata)
  /\ pc' = "sections"
  /\ UNCHANGED <<zip, _opfPath, _root, _content, _manifest, _toc, _metadata,
                 structure, sections, tocFile, promise, call>>

\* this.sections = this._resolveSections(); return this
ParseSections ==
  /\ pc = "sections"
  /\ LET all == _resolveSections(Undefined)
     IN  IF IsThrow(all)
           THEN Reject /\ UNCHANGED sections
           ELSE /\ sections' = all
                /\ promise' = "resolved"
                /\ pc' = "settled"
  /\ UNCHANGED <<zip, _opfPath, _root, _content, _manifest, _spine, _toc,
                 _metadata, structure, info, tocFile, call>>

\* a caller's getSection(id), before parse() or after it settled
GetSection(id) ==
  /\ pc \in {"new", "settled"}
  /\ call' = [op |-> "getSection", arg |-> Str(id), ret |-> getSection(id)]
  /\ UNCHANGED <<zip, fields, pc, promise>>

\* a caller's getItemId(href), before parse() or after it settled
GetItemId(href) ==
  /\ pc \in {"new", "settled"}
  /\ call' = [op |-> "getItemId", arg |-> Str(href), ret |-> getItemId(href)]
  /\ UNCHANGED <<zip, fields, pc, promise>>

-----------------------------------------------------------------------------
(* Archives the constructor can be handed *)

MaxRefs == 3
MaxNodes == 4
MaxItems == 2
MaxAuthors == 2

\* an object holding the keys whose value is given
Opt(key, v) == IF v = Undefined THEN <<>> ELSE (key :> v)

\* an archive entry: its text, and what xmlToJson makes of that text
Entry(text, xml) == [t |-> "entry", text |-> text, xml |-> xml]

ContainerXml(rootfile) ==
  Obj([container |-> Obj([rootfiles |-> Obj([rootfile |-> rootfile])])])

ItemEl(id, href) == Obj(("@id" :> Str(id)) @@ ("@href" :> Str(href)))
RefEl(id) == Obj("@idref" :> Str(id))

OpfXml(item, itemref, metadata) ==
  Obj([package |-> Obj(Opt("manifest", IF item = Undefined THEN Undefined
                                        ELSE Obj([item |-> item]))
                       @@ Opt("spine", IF itemref = Undefined THEN Undefined
                                       ELSE Obj([itemref |-> itemref]))
                       @@ Opt("metadata", metadata))])

OpfPaths == {<<"OEBPS", Slash, "content.opf">>, <<"content.opf">>}

\* the entries of an archive: the container descriptor, the package document
\* and the files, each present or not
Archive(container, opfPath, opf, files) ==
  (IF container = Undefined THEN <<>> ELSE (Tail(ContainerPath) :> Entry(Str(<<"xml">>), container)))
    @@ (IF opf = Undefined THEN <<>> ELSE (opfPath :> Entry(Str(<<"xml">>), opf)))
    @@ files

WellFormedContainer(opfPath) == ContainerXml(Obj("@full-path" :> Str(opfPath)))

Fresh(archive) ==
  /\ zip = archive
  /\ _opfPath = Undefined
  /\ _root = Undefined
  /\ _content = Undefined
  /\ _manifest = Undefined
  /\ _spine = Undefined
  /\ _toc = Undefined
  /\ _metadata = Undefined
  /\ structure = Undefined
  /\ info = Undefined
  /\ sections = Undefined
  /\ tocFile = Undefined
  /\ pc = "new"
  /\ promise = "none"
  /\ call = NoCall

\* content documents: id "x" is in the manifest and in no spine, "none" is in neither
SpineIds == {<<"a">>, <<"b">>, <<"2">>, <<"1">>}
HrefOf(id) == <<"Text", Slash>> \o id \o <<".html">>
HtmlOf(id) == <<"html of ">> \o id
HtmlFiles(root, ids) == [path \in {root \o HrefOf(id) : id \in ids} |->
                           Entry(Str(HtmlOf(SubSeq(path, Len(path) - 1, Len(path) - 1))), Undefined)]
ManifestOrder == << <<"a">>, <<"b">>, <<"x">>, <<"2">>, <<"1">> >>
ItemOf(id) == ItemEl(id, HrefOf(id))

CallIds == SpineIds \cup {<<"x">>, <<"none">>}

\* hrefs a caller asks getItemId about: a file name bare, under the archive
\* root, under a directory, and each with a fragment
BaseNames == {<<"c1.xhtml">>}
Prefixes == {<<>>, <<Slash, "OEBPS", Slash>>, <<"Text", Slash>>}
Fragments == {<<>>, <<Hash, "sec2">>}
CallHrefs == {pre \o f \o frag : pre \in Prefixes, f \in BaseNames, frag \in Fragments}

Next ==
  \/ ParseOpfPath
  \/ ParseContent
  \/ ParseManifest
  \/ ParseToc
  \/ ParseSpine
  \/ ParseSections
  \/ \E id \in CallIds : GetSection(id)
  \/ \E href \in CallHrefs : GetItemId(href)

\* the item-reference lists a package document can declare
RefLists == UNION {[1..n -> SpineIds] : n \in 1..MaxRefs}
ItemrefShapes ==
  {Undefined} \cup {RefEl(id) : id \in SpineIds} \cup {Arr(Map(l, RefEl)) : l \in RefLists}

\* well-formed archives over every declared spine
InitSpine ==
  \E itemref \in ItemrefShapes :
    LET opfPath == <<"OEBPS", Slash, "content.opf">>
    IN  Fresh(Archive(WellFormedContainer(opfPath), opfPath,
                      OpfXml(Arr(Map(ManifestOrder, ItemOf)), itemref, Undefined),
                      HtmlFiles(determineRoot(opfPath), SpineIds \cup {<<"x">>})))

SpecSpine == InitSpine /\ [][Next]_vars

-----------------------------------------------------------------------------
(* The spine and the sections built over it *)

\* the idrefs the package document declares, in declaration order
DeclaredRefs ==
  LET itemref == Prop(Prop(Prop(_content, "package"), "spine"), "itemref")
  IN  CASE itemref = Undefined -> <<>>
        [] IsArray(itemref) -> [i \in 1..Len(itemref.a) |-> itemref.a[i].o["@idref"].s]
        [] OTHER -> <<itemref.o["@idref"].s>>

DistinctRefs == \A i, j \in 1..Len(DeclaredRefs) : DeclaredRefs[i] = DeclaredRefs[j] => i = j

IsSectionFor(v, id) == v.t = "section" /\ v.id = id

\* C1: after a successful parse(), sections[i] is the section built for id x
\* exactly when spine[x] = i, for every id x and every index i
C1_SectionsFollowSpine ==
  promise = "resolved" =>
    \A x \in CallIds : \A i \in 0..Len(DeclaredRefs) :
      IsSectionFor(At(sections, i), x) <=> (x \in SpineKeys(_spine) /\ _spine.idx[x] = i)

\* C3: on a parsed document getSection(id) returns sections[spine[id]], the
\* section of the requested id, for a spine key, and otherwise the section the
\* per-item path resolves for that single id
C3_GetSectionReturnsRequested ==
  (promise = "resolved" /\ call.op = "getSection") =>
    LET id == call.arg.s
    IN  IF id \in SpineKeys(_spine)
          THEN call.ret = At(sections, _spine.idx[id]) /\ IsSectionFor(call.ret, id)
          ELSE call.ret = ResolveItem(id)

\* the spine holds exactly the values 0..n-1, one key each, the k-th declared
\* item reference at k-1
SpineIsDense ==
  LET n == Len(DeclaredRefs)
  IN  /\ {_spine.idx[k] : k \in SpineKeys(_spine)} = 0..(n - 1)
      /\ Cardinality(SpineKeys(_spine)) = n
      /\ \A k \in 1..n : DeclaredRefs[k] \in SpineKeys(_spine)
                         /\ _spine.idx[DeclaredRefs[k]] = k - 1

\* C7 as claimed: for n declared item references the spine's values are
\* exactly 0..n-1, each held by one key, in declaration order
C7_SpineDenseForAnyRefs == _spine # Undefined => SpineIsDense

\* C7 amended: the same, for item references whose idrefs are pairwise distinct
C7_SpineDenseForDistinctRefs == (_spine # Undefined /\ DistinctRefs) => SpineIsDense

C7_Witness ==
  /\ _spine # Undefined
  /\ DistinctRefs
  /\ Len(DeclaredRefs) >= 2
  /\ promise = "resolved"

-----------------------------------------------------------------------------
(* Navigation documents: an outline and its two encodings *)

\* An outline in document order: each entry's nesting depth and its link
TocHrefs == {<<"Text", Slash, "a", ".html", Hash, "s1">>, <<"gone.html">>}
DepthLists(n) ==
  {d \in [1..n -> 0..(n - 1)] : d[1] = 0 /\ \A i \in 1..(n - 1) : d[i + 1] <= d[i] + 1}
Outlines ==
  UNION {{[i \in 1..n |-> [d |-> d[i], h |-> h[i]]] : d \in DepthLists(n), h \in [1..n -> TocHrefs]}
         : n \in 1..MaxNodes}

\* the entries at one level, each with the entries nested under it
RECURSIVE Split(_, _)
Split(flat, level) ==
  IF flat = <<>>
    THEN <<>>
    ELSE LET ends == {k \in 2..Len(flat) : flat[k].d = level}
             j == IF ends = {} THEN Len(flat) + 1
                  ELSE CHOOSE k \in ends : \A other \in ends : k <= other
         IN  <<SubSeq(flat, 1, j - 1)>> \o Split(SubSeq(flat, j, Len(flat)), level)

\* Schema A: ncx navPoints; a lone child is a bare navPoint when single is set
RECURSIVE NcxPoint(_, _, _), NcxPoints(_, _, _)
NcxPoint(group, level, single) ==
  Obj(("@id" :> Str(<<"np">>)) @@ ("@playOrder" :> Str(<<"po">>))
      @@ ("navLabel" :> Obj([text |-> Str(<<"title">>)]))
      @@ ("content" :> Obj("@src" :> Str(group[1].h)))
      @@ Opt("navPoint", IF Len(group) = 1 THEN Undefined
                         ELSE NcxPoints(Tail(group), level + 1, single)))

NcxPoints(flat, level, single) ==
  LET PointOf(g) == NcxPoint(g, level, single)
      points == Map(Split(flat, level), PointOf)
  IN  IF Len(points) = 1 /\ single THEN points[1] ELSE Arr(points)

NcxXml(flat, single) == Obj([ncx |-> Obj([navMap |-> Obj([navPoint |-> NcxPoints(flat, 0, single)])])])

\* Schema B: html nav ol/li; nested entries carry a numbering prefix in a span
RECURSIVE NavLi(_, _)
NavLi(group, level) ==
  LET NestedLi(g) == NavLi(g, level + 1)
      anchor == ("$" :> Obj([href |-> Str(group[1].h)])) @@ ("_" :> Str(<<"title">>))
                @@ Opt("span", IF level = 0 THEN Undefined
                               ELSE Arr(<<Obj("_" :> Str(<<"1.">>))>>))
  IN  Obj([a |-> Arr(<<Obj(anchor)>>)]
          @@ Opt("ol", IF Len(group) = 1 THEN Undefined
                       ELSE Arr(<<Obj([li |-> Arr(Map(Split(Tail(group), level + 1), NestedLi))])>>)))

NavXml(flat) ==
  LET TopLi(g) == NavLi(g, 0)
  IN  Obj([html |-> Obj([body |-> Arr(<<Obj([nav |-> Arr(<<Obj([ol |->
        Arr(<<Obj([li |-> Arr(Map(Split(flat, 0), TopLi))])>>)])>>)])>>)])])

TocPath == <<"toc.ncx">>
NcxItem == ItemEl(<<"ncx">>, TocPath)
TocSource(schema, flat) == [t |-> "outline", schema |-> schema, nodes |-> flat]
TocEntries ==
  {Entry(TocSource("ncx", f), NcxXml(f, single)) : f \in Outlines, single \in BOOLEAN}
    \cup {Entry(TocSource("nav", f), NavXml(f)) : f \in Outlines}

\* archives whose navigation file holds every outline in either schema
InitToc ==
  \E toc \in TocEntries :
    LET opfPath == <<"OEBPS", Slash, "content.opf">>
        root == determineRoot(opfPath)
    IN  Fresh(Archive(WellFormedContainer(opfPath), opfPath,
                      OpfXml(Arr(<<ItemOf(<<"a">>), NcxItem>>), RefEl(<<"a">>), Undefined),
                      HtmlFiles(root, {<<"a">>}) @@ ((root \o TocPath) :> toc)))

SpecToc == InitToc /\ [][Next]_vars

\* archives with each part present, absent or malformed
Containers(opfPath) ==
  {WellFormedContainer(opfPath), ContainerXml(EmptyObj), Obj([container |-> EmptyObj]), Undefined}
ItemShapes ==
  {Arr(<<ItemOf(<<"a">>), ItemOf(<<"b">>)>>), Arr(<<ItemOf(<<"a">>), ItemOf(<<"b">>), NcxItem>>),
   Arr(<<ItemOf(<<"a">>), NcxItem>>), ItemOf(<<"a">>), Undefined}
FewItemrefs == {Undefined, RefEl(<<"a">>), Arr(<<RefEl(<<"a">>), RefEl(<<"b">>)>>)}

Init ==
  \E opfPath \in OpfPaths, hasOpf, hasToc \in BOOLEAN, item \in ItemShapes,
     itemref \in FewItemrefs, present \in SUBSET {<<"a">>, <<"b">>} :
    \E container \in Containers(opfPath) :
      LET root == determineRoot(opfPath)
      IN  Fresh(Archive(container, opfPath,
                        IF hasOpf THEN OpfXml(item, itemref, Undefined) ELSE Undefined,
                        HtmlFiles(root, present)
                          @@ (IF hasToc
                                THEN ((root \o TocPath) :>
                                        Entry(TocSource("ncx", <<[d |-> 0, h |-> <<"gone.html">>]>>),
                                              NcxXml(<<[d |-> 0, h |-> <<"gone.html">>]>>, TRUE)))
                                ELSE <<>>)))

Spec == Init /\ [][Next]_vars

-----------------------------------------------------------------------------
(* The outline built from the navigation file *)

\* the outline the archive's navigation file was written from
TocOutline == zip[RootText \o TocPath].text

\* the nodes of a built outline, each before its children
RECURSIVE PreOrder(_)
PreOrder(nodes) ==
  IF nodes = <<>>
    THEN <<>>
    ELSE LET node == Head(nodes)
             below == IF IsArray(node.o.children) THEN PreOrder(node.o.children.a) ELSE <<>>
         IN  <<node>> \o below \o PreOrder(Tail(nodes))

\* C2: the playOrder values of a Schema B outline, read in pre-order, are the
\* visitation order 1, 2, 3, ...: strictly increasing, no value shared
C2_PlayOrderIsPreOrder ==
  (structure # Undefined /\ TocOutline.schema = "nav") =>
    LET visited == PreOrder(structure.a)
    IN  \A i \in 1..Len(visited) : visited[i].o.playOrder = Num(i)

\* the shape of a built outline: per node its fields and its children's shape
RECURSIVE Shape(_)
Shape(children) ==
  IF children = Undefined
    THEN [leaf |-> TRUE]
    ELSE LET NodeShape(node) == [fields |-> DOMAIN node.o, children |-> Shape(node.o.children)]
         IN  [list |-> Map(children.a, NodeShape)]

\* the shape the entries of an outline have
TocFields == {"name", "sectionId", "nodeId", "path", "playOrder", "children"}
RECURSIVE OutlineShape(_, _)
OutlineShape(flat, level) ==
  LET GroupShape(g) ==
        [fields |-> TocFields,
         children |-> IF Len(g) = 1 THEN [leaf |-> TRUE] ELSE OutlineShape(Tail(g), level + 1)]
  IN  [list |-> Map(Split(flat, level), GroupShape)]

\* C8: both encodings of the navigation file's outline give outlines of one
\* shape, the shape of the outline itself: one node per entry, the same
\* nesting and order, the same fields, and an empty sectionId for an entry
\* whose link matches no manifest item
C8_SchemaInvariantShape ==
  structure # Undefined =>
    LET flat == TocOutline.nodes
        visited == PreOrder(structure.a)
    IN  /\ Shape(structure) = OutlineShape(flat, 0)
        /\ \A single \in BOOLEAN :
             Shape(_genStructure(NcxXml(flat, single))) = Shape(_genStructure(NavXml(flat)))
        /\ Len(visited) = Len(flat)
        /\ \A i \in 1..Len(flat) :
             /\ visited[i].o.path = Str(flat[i].h)
             /\ flat[i].h = <<"gone.html">> => visited[i].o.sectionId = Str(<<>>)

\* a parent with two leaf children, one of them a dangling link, built from
\* the ncx encoding
C8_Witness ==
  /\ structure # Undefined
  /\ TocOutline.schema = "ncx"
  /\ Len(TocOutline.nodes) = 3
  /\ TocOutline.nodes[1].d = 0 /\ TocOutline.nodes[2].d = 1 /\ TocOutline.nodes[3].d = 1
  /\ TocOutline.nodes[3].h = <<"gone.html">>
  /\ promise = "resolved"

-----------------------------------------------------------------------------
(* parse() as a whole *)

\* what the archive holds, read off its entries
HeldContainer == IF Tail(ContainerPath) \in DOMAIN zip THEN zip[Tail(ContainerPath)].xml ELSE Undefined
HeldOpfPath == get(HeldContainer, <<"container", "rootfiles", "rootfile", "@full-path">>, Undefined)
HeldOpf == IF HeldOpfPath # Undefined /\ HeldOpfPath.s \in DOMAIN zip THEN zip[HeldOpfPath.s].xml ELSE Undefined
HeldRoot == determineRoot(HeldOpfPath.s)
HeldItems ==
  LET item == get(HeldOpf, <<"package", "manifest", "item">>, Undefined)
  IN  CASE item = Undefined -> <<>>
        [] IsArray(item) -> item.a
        [] OTHER -> <<item>>
HeldRefs ==
  LET itemref == get(HeldOpf, <<"package", "spine", "itemref">>, Undefined)
  IN  CASE itemref = Undefined -> <<>>
        [] IsArray(itemref) -> itemref.a
        [] OTHER -> <<itemref>>
HeldHrefs(id) == {HeldItems[i].o["@href"].s : i \in {j \in 1..Len(HeldItems) : HeldItems[j].o["@id"].s = id}}

\* the fatal conditions: no bootstrap descriptor, no package-document path, no
\* package document, no entry for the navigation file or for a spine item
Fatal ==
  \/ HeldContainer = Undefined
  \/ HeldOpfPath = Undefined
  \/ HeldOpf = Undefined
  \/ \E href \in HeldHrefs(<<"ncx">>) : (HeldRoot \o href) \notin DOMAIN zip
  \/ \E i \in 1..Len(HeldRefs) :
       \E href \in HeldHrefs(HeldRefs[i].o["@idref"].s) : (HeldRoot \o href) \notin DOMAIN zip

Populated ==
  /\ _manifest # Undefined
  /\ _spine # Undefined
  /\ info # Undefined
  /\ sections # Undefined

\* C4: parse() runs its stages in order and settles all-or-nothing: a resolved
\* promise means a fully populated document and no fatal condition, and every
\* fatal condition means rejection
C4_AllOrNothing ==
  /\ promise = "resolved" => (pc = "settled" /\ Populated /\ ~Fatal)
  /\ (pc = "settled" /\ Fatal) => promise = "rejected"
  /\ pc = "settled" => promise \in {"resolved", "rejected"}
  /\ _content # Undefined => _opfPath # Undefined
  /\ _manifest # Undefined => (_content # Undefined /\ _metadata # Undefined)
  /\ structure # Undefined => _manifest # Undefined
  /\ _spine # Undefined => (_manifest # Undefined /\ (Truthy(tocFile) => structure # Undefined))
  /\ sections # Undefined => (_spine # Undefined /\ info # Undefined)

\* a document resolved with a navigation file and two sections
C4_Witness ==
  /\ promise = "resolved"
  /\ structure # Undefined
  /\ Len(sections.a) = 2

\* a parse rejected on a spine item whose entry the archive lacks
C4_WitnessRejected ==
  /\ promise = "rejected"
  /\ _spine # Undefined
  /\ sections = Undefined

\* C10: getManifest yields one {id, href} entry per declared item, in
\* declaration order, for a single item as for a list and for none, and does
\* not throw
C10_ManifestToleratesSingleItem ==
  (_content # Undefined /\ pc # "manifest") =>
    /\ _manifest # Undefined
    /\ _manifest.a = [i \in 1..Len(HeldItems) |->
                        [href |-> HeldItems[i].o["@href"], id |-> HeldItems[i].o["@id"]]]

-----------------------------------------------------------------------------
(* The link resolver over every manifest *)

LinkHrefs == {<<"c1.xhtml">>, <<"Text", Slash, "c1.xhtml">>, <<"Styles", Slash, "c2.xhtml">>,
              <<"c2.xhtml", Hash, "top">>}
LinkId(i) == [j \in 1..i |-> "m"]
LinkManifests ==
  UNION {{Arr([i \in 1..n |-> ItemEl(LinkId(i), hrefs[i])]) : hrefs \in [1..n -> LinkHrefs]}
         : n \in 0..MaxItems}

InitLink ==
  \E item \in LinkManifests :
    LET opfPath == <<"OEBPS", Slash, "content.opf">>
    IN  Fresh(Archive(WellFormedContainer(opfPath), opfPath,
                      OpfXml(item, Undefined, Undefined), <<>>))

SpecLink == InitLink /\ [][Next]_vars

\* f is the fragment-stripped base name of href: it runs from the start or a
\* "/" to the end or the first "#", and holds neither
IsNameOf(f, href) ==
  \E i \in 1..(Len(href) + 1) : \E j \in (i - 1)..Len(href) :
    /\ f = SubSeq(href, i, j)
    /\ ~HasToken(f, Slash) /\ ~HasToken(f, Hash)
    /\ ~HasToken(SubSeq(href, 1, i - 1), Hash)
    /\ i = 1 \/ href[i - 1] = Slash
    /\ j = Len(href) \/ href[j + 1] = Hash

SameName(href1, href2) ==
  \E i \in 1..(Len(href1) + 1) : \E j \in (i - 1)..Len(href1) :
    IsNameOf(SubSeq(href1, i, j), href1) /\ IsNameOf(SubSeq(href1, i, j), href2)

\* C5: for a file name that is the base name of a manifest href, the lookup
\* gives one manifest id whether the name comes bare, under the archive root,
\* under a directory, or with a fragment
C5_ResolveIdIgnoresPrefixAndFragment ==
  (call.op = "getItemId" /\ _manifest # Undefined) =>
    \A f \in BaseNames :
      ((\E pre \in Prefixes, frag \in Fragments : call.arg.s = pre \o f \o frag)
         /\ (\E k \in 1..Len(_manifest.a) : IsNameOf(f, _manifest.a[k].href.s)))
      => /\ call.ret \in {_manifest.a[k].id : k \in 1..Len(_manifest.a)}
         /\ \A pre \in Prefixes, frag \in Fragments : getItemId(pre \o f \o frag) = call.ret

C5_Witness ==
  /\ call.op = "getItemId"
  /\ call.arg.s = <<Slash, "OEBPS", Slash, "c1.xhtml", Hash, "sec2">>
  /\ call.ret = Str(LinkId(2))

\* C6: the lookup returns the id of the first manifest item, in manifest
\* order, with the href's fragment-stripped base name, and the empty string,
\* never a throw, when there is none or the manifest is not built
C6_ResolveIdFirstMatchOrEmpty ==
  call.op = "getItemId" =>
    LET items == IF _manifest = Undefined THEN <<>> ELSE _manifest.a
        hits == {k \in 1..Len(items) : SameName(items[k].href.s, call.arg.s)}
    IN  IF hits = {}
          THEN call.ret = Str(<<>>)
          ELSE \E k \in hits : call.ret = items[k].id /\ \A other \in hits : k <= other

\* two items share the asked base name and the first one's id came back
C6_Witness ==
  /\ call.op = "getItemId"
  /\ _manifest # Undefined
  /\ Cardinality({k \in 1..Len(_manifest.a) : SameName(_manifest.a[k].href.s, call.arg.s)}) = 2
  /\ call.ret = Str(LinkId(1))

-----------------------------------------------------------------------------
(* The metadata extractor over every metadata block *)

CreatorEls == {Obj("#text" :> Str(<<"Ann">>)),
               Obj(("#text" :> Str(<<"Bob">>)) @@ ("@role" :> Str(<<"aut">>))),
               Obj("@role" :> Str(<<"aut">>))}
CreatorShapes ==
  {Undefined} \cup CreatorEls \cup {Arr(a) : a \in UNION {[1..n -> CreatorEls] : n \in 1..MaxAuthors}}
DescriptionShapes == {Undefined, Obj("_" :> Str(<<"about">>)), Obj("@id" :> Str(<<"d">>))}
FlatShapes == {Undefined, Str(<<"text">>)}
MetaBlocks ==
  {Obj(Opt("dc:title", title) @@ Opt("dc:creator", creator) @@ Opt("description", description)
       @@ Opt("dc:language", language) @@ Opt("dc:publisher", publisher) @@ Opt("dc:rights", rights))
   : title \in FlatShapes, creator \in CreatorShapes, description \in DescriptionShapes,
     language \in FlatShapes, publisher \in FlatShapes, rights \in FlatShapes}

InitMeta ==
  \E metadata \in MetaBlocks :
    LET opfPath == <<"content.opf">>
    IN  Fresh(Archive(WellFormedContainer(opfPath), opfPath,
                      OpfXml(Arr(<<ItemOf(<<"a">>)>>), Undefined, metadata), <<>>))

SpecMeta == InitMeta /\ [][Next]_vars

\* the recognised fields a raw metadata block holds
HasKey(v, key) == v.t = "object" /\ key \in DOMAIN v.o
Present(meta, field) ==
  CASE field = "title" -> HasKey(meta, "dc:title")
    [] field = "language" -> HasKey(meta, "dc:language")
    [] field = "publisher" -> HasKey(meta, "dc:publisher")
    [] field = "rights" -> HasKey(meta, "dc:rights")
    [] field = "description" ->
         HasKey(meta, "description") /\ HasKey(meta.o["description"], "_")
    [] field = "author" ->
         /\ HasKey(meta, "dc:creator")
         /\ LET creator == meta.o["dc:creator"]
            IN  IF IsArray(creator)
                  THEN Len(creator.a) # 0 /\ HasKey(creator.a[1], "#text")
                  ELSE HasKey(creator, "#text")
PresentFields(meta) ==
  {field \in {"title", "author", "description", "language", "publisher", "rights"} :
     Present(meta, field)}

====
